---- MODULE Spec2Model ----
(***************************************************************************)
(* Model of annual_report.py: the Annual Report link aggregator and        *)
(* downloader.  aggregate_links scrapes the link page of every symbol of   *)
(* the symbol file into the JSON link index; download_reports fetches the  *)
(* report of one financial year for every symbol.                          *)
(*                                                                         *)
(* Strings that the program takes apart are modelled by their parts: a     *)
(* financial year label "2025-2026" is the pair <<2025, 2026>>, a file     *)
(* name "AR_10_TCS_2024_2025.pdf" is the sequence of its "_"-separated     *)
(* components, a URL is a record of its origin, directory and file name.   *)
(***************************************************************************)
EXTENDS Integers, Sequences, FiniteSets, TLC

VARIABLES
    pc,           \* the statement the program is at
    exc,          \* the exception in flight (NoExc when none)
    symbolFile,   \* the symbol file on disk: NoFile or its lines
    jsonFile,     \* annual_report_links.json on disk
    files,        \* the download folder: file name -> content
    folder,       \* whether the download folder exists
    args,         \* parsed command line / call arguments
    links,        \* annual_report_links (in memory)
    symbol_list,  \* symbol_list
    idx,          \* position of the for loop in symbol_list (1-based)
    symbol_links, \* aggregate_links' symbol_links: the dict scraped last
    agg,          \* aggregate_links' counters and lists
    total_size,   \* download_reports' total_size
    dts,          \* download_to_save's locals
    log,          \* every record handed to the logger, in order
    http,         \* every HTTP request issued, in order
    loaded,       \* history: what read_json returned to the running function
    merged,       \* history: (symbol, year) -> link merged by this aggregation
    dl0           \* history: folder, files and log length when download_reports began

vars == <<pc, exc, symbolFile, jsonFile, files, folder, args, links,
          symbol_list, symbol_links, idx, agg, total_size, dts, log, http, loaded, merged,
          dl0>>

----------------------------------------------------------------------------
(* Bounds of the model *)

\* longest symbol file
MaxSymbols == 2

\* chunks a report body is streamed in
MaxChunks == 2

----------------------------------------------------------------------------
(* Program constants and the values the model draws inputs from *)

REPORT_URL == "http://nseindia.com"

\* datetime.date.today().year
CurrentYear == 2026

\* a symbol file that does not exist, and one holding the given lines
NoFile == [exists |-> FALSE, lines |-> <<>>]
FileOf(ls) == [exists |-> TRUE, lines |-> ls]
NoExc == [type |-> "none", site |-> "none"]

\* a record handed to the logger: logger.<level>(<msg>.format(<detail>))
LogLine(level, msg, detail) == <<msg, level, detail>>

LineMsg(line) == line[1]

\* lines of a symbol file (mixed case: the loops upper-case them)
FileLines == {"tcs", "INFY"}

Symbols == {"TCS", "INFY"}

\* str.upper()
Upper(s) == IF s = "tcs" THEN "TCS" ELSE s

\* href attributes found on link pages
Hrefs ==
    { [dir |-> "/corporate/content", file |-> <<"AR", "10", "TCS", "2024", "2025.pdf">>],
      [dir |-> "/corporate/content", file |-> <<"INFY", "2025.pdf">>] }

\* link = REPORT_URL + item.get("href")
Link(href) == [origin |-> REPORT_URL, dir |-> href.dir, file |-> href.file]

URLs == { Link(h) : h \in Hrefs }

\* an anchor of a link page; its text is the sequence of its numbers: <<2025>>
\* is the text "2025", <<2025, 2026>> the text "2025-2026"
Anchor(text, href) == [text |-> text, href |-> href]

\* year = item.text, turned into "Y-(Y+1)" when it is four digits
YearLabel(text) ==
    IF Len(text) = 1 /\ text[1] \in 1000..9999
    THEN <<text[1], text[1] + 1>>
    ELSE text

\* get_latest_financial_year
LatestFinancialYear == <<CurrentYear - 1, CurrentYear>>

PreviousFinancialYear == <<CurrentYear - 2, CurrentYear - 1>>

Years == {PreviousFinancialYear, LatestFinancialYear}

\* json.dumps(..., sort_keys=True): year labels in ascending order
YearOrder == <<PreviousFinancialYear, LatestFinancialYear>>

SortedYears(d) == SelectSeq(YearOrder, LAMBDA y : y \in DOMAIN d)

EmptyDict == <<>>

Range(d) == { d[k] : k \in DOMAIN d }

\* d[k] = v on a dict
Put(d, k, v) == [x \in (DOMAIN d) \cup {k} |-> IF x = k THEN v ELSE d[x]]

\* bool(d.get(k)) for a dict whose values are dicts or non-empty strings
Truthy(d, k) == IF k \in DOMAIN d THEN d[k] # EmptyDict ELSE FALSE

YearMaps == UNION { [ys -> URLs] : ys \in SUBSET Years }

Indexes == UNION { [ss -> YearMaps] : ss \in SUBSET Symbols }

\* number of (symbol, year) pairs of an index
RECURSIVE SumOver(_, _)
SumOver(d, ks) ==
    IF ks = {} THEN 0
    ELSE LET k == CHOOSE x \in ks : TRUE
         IN Cardinality(DOMAIN d[k]) + SumOver(d, ks \ {k})

PairCount(d) == SumOver(d, DOMAIN d)

\* link indexes found on disk when the program starts
InitialIndexes == { d \in Indexes : PairCount(d) <= 2 }

\* contents of the index file: absent, a complete index, or the unparseable
\* remains of a write that did not finish
JsonAbsent == [state |-> "absent"]
JsonTruncated == [state |-> "truncated"]
JsonOf(d) == [state |-> "complete", index |-> d]

RECURSIVE SeqsUpTo(_, _)
SeqsUpTo(S, n) ==
    IF n = 0 THEN {<<>>}
    ELSE LET shorter == SeqsUpTo(S, n - 1)
         IN shorter \cup { Append(s, x) : s \in shorter, x \in S }

SymbolFiles == {NoFile} \cup { FileOf(ls) : ls \in SeqsUpTo(FileLines, MaxSymbols) }

Offsets == {0, 1}

\* link pages the exchange serves (the anchors of the page, in order)
Pages ==
    LET h1 == CHOOSE h \in Hrefs : Len(h.file) > 4
        h2 == CHOOSE h \in Hrefs : Len(h.file) <= 4
    IN { <<>>,
         <<Anchor(<<CurrentYear - 1>>, h1)>>,
         <<Anchor(<<CurrentYear - 1, CurrentYear>>, h2)>>,
         <<Anchor(<<CurrentYear - 2>>, h1), Anchor(<<CurrentYear - 1>>, h2)>>,
         <<Anchor(<<CurrentYear - 2>>, h2), Anchor(<<CurrentYear - 2>>, h1)>> }

----------------------------------------------------------------------------
(* read_symbol_file, read_json *)

\* read_symbol_file: the non-empty lines, [] when the file is missing
ReadSymbolFile(f) ==
    IF ~f.exists THEN <<>> ELSE SelectSeq(f.lines, LAMBDA l : l # "")

ReadSymbolFileLog(f) ==
    IF ~f.exists THEN << LogLine("error", "Symbol file could not be found", <<>>) >>
    ELSE <<>>

\* read_json: dict() when the file is missing; json.load raises on a file
\* that holds no complete JSON document
ReadJsonRaises(f) == f.state = "truncated"

ReadJson(f) == IF f.state = "complete" THEN f.index ELSE EmptyDict

----------------------------------------------------------------------------
(* scrape_links_for *)

\* report_links[year] = link over the anchors in page order (the last wins)
RECURSIVE ReportLinks(_)
ReportLinks(anchors) ==
    IF anchors = <<>> THEN EmptyDict
    ELSE LET n == Len(anchors)
             item == anchors[n]
         IN Put(ReportLinks(SubSeq(anchors, 1, n - 1)),
                YearLabel(item.text), Link(item.href))

ScrapeLog(symbol, anchors) ==
    << LogLine("info", "Scraping links for", <<symbol>>) >>
    \o (IF anchors = <<>> THEN << LogLine("warning", "No links available.", <<symbol>>) >>
        ELSE <<>>)

PageRequest(symbol) == <<"GET", "link page", symbol>>

----------------------------------------------------------------------------
(* aggregate_links *)

AggZero ==
    [symbols_scraped |-> 0, links_added |-> 0, links_modified |-> 0,
     links_added_for |-> <<>>, links_modified_for |-> <<>>]

\* faulty variant of MustScrape: looks for the financial year before the
\* latest one
MustScrapeStaleYear(d, symbol, force_update) ==
    IF force_update \/ ~Truthy(d, symbol) THEN TRUE
    ELSE ~Truthy(d[symbol], PreviousFinancialYear)

\* faulty variant of MustScrape: force_update is not looked at
MustScrapeUnforced(d, symbol, force_update) ==
    IF ~Truthy(d, symbol) THEN TRUE
    ELSE ~Truthy(d[symbol], LatestFinancialYear)

\* lines 403-404
MustScrape(d, symbol, force_update) ==
    IF force_update \/ ~Truthy(d, symbol) THEN TRUE
    ELSE ~Truthy(d[symbol], LatestFinancialYear)

\* faulty variant of MergeOne: a changed link is recorded as an added one
MergeOneBuggy(st, symbol, year, link) ==
    LET cur == st.links[symbol]
    IN IF year \notin DOMAIN cur \/ cur[year] # link
       THEN [st EXCEPT
               !.links = Put(st.links, symbol, Put(cur, year, link)),
               !.log = Append(@, LogLine("info", "Added", <<symbol, year, link>>)),
               !.agg = [@ EXCEPT !.links_added = @ + 1,
                                 !.links_added_for = Append(@, symbol)],
               !.merged = Put(@, <<symbol, year>>, link)]
       ELSE st

\* lines 416-425 for one (year, link) of the scraped page; st is the record
\* [links, agg, log, merged]
MergeOne(st, symbol, year, link) ==
    LET cur == st.links[symbol]
    IN IF year \notin DOMAIN cur
       THEN [st EXCEPT
               !.links = Put(st.links, symbol, Put(cur, year, link)),
               !.log = Append(@, LogLine("info", "Added", <<symbol, year, link>>)),
               !.agg = [@ EXCEPT !.links_added = @ + 1,
                                 !.links_added_for = Append(@, symbol)],
               !.merged = Put(@, <<symbol, year>>, link)]
       ELSE IF cur[year] # link
       THEN [st EXCEPT
               !.links = Put(st.links, symbol, Put(cur, year, link)),
               !.log = Append(@, LogLine("warning", "Modified", <<symbol, year, link>>)),
               !.agg = [@ EXCEPT !.links_modified = @ + 1,
                                 !.links_modified_for = Append(@, symbol)],
               !.merged = Put(@, <<symbol, year>>, link)]
       ELSE st

\* how far lines 416-425 got for one year when Ctrl-C arrived: not begun,
\* the link stored (417/422), its line logged (418/423), the counter
\* incremented (419/424) with the symbol not yet appended (420/425)
MergeStages == {"before", "assigned", "logged", "counted"}

MergeOneInterrupted(st, symbol, year, link, stage) ==
    LET full == MergeOne(st, symbol, year, link)
    IN IF stage = "before" THEN st
       ELSE IF stage = "assigned"
       THEN [st EXCEPT !.links = full.links, !.merged = full.merged]
       ELSE IF stage = "logged"
       THEN [st EXCEPT !.links = full.links, !.merged = full.merged,
                       !.log = full.log]
       ELSE [full EXCEPT !.agg.links_added_for = st.agg.links_added_for,
                         !.agg.links_modified_for = st.agg.links_modified_for]

\* the for loop of line 412 over the given years
RECURSIVE MergeYears(_, _, _, _)
MergeYears(st, symbol, scraped, years) ==
    IF years = <<>> THEN st
    ELSE MergeYears(MergeOne(st, symbol, Head(years), scraped[Head(years)]),
                    symbol, scraped, Tail(years))

\* lines 405-411: the page is scraped and the symbol gets its dict
Scraped(st, symbol, anchors) ==
    [st EXCEPT
       !.log = @ \o ScrapeLog(symbol, anchors)
                 \o (IF symbol \in DOMAIN st.links THEN <<>>
                     ELSE << LogLine("debug", "would be added to the JSON File", <<symbol>>) >>),
       !.agg = [@ EXCEPT !.symbols_scraped = @ + 1],
       !.links = IF symbol \in DOMAIN st.links THEN @
                 ELSE Put(@, symbol, EmptyDict)]

AggState == [links |-> links, agg |-> agg, log |-> log, merged |-> merged]

\* lines 389-395
AggBegin ==
    /\ pc = "aggregate_links"
    /\ IF ReadJsonRaises(jsonFile)
       THEN /\ exc' = [type |-> "ValueError", site |-> "read_json"]
            /\ pc' = "aggregate_raised"
            /\ UNCHANGED <<links, symbol_list, symbol_links, idx, agg, log, loaded, merged>>
       ELSE /\ links' = ReadJson(jsonFile)
            /\ loaded' = ReadJson(jsonFile)
            /\ symbol_list' = ReadSymbolFile(symbolFile)
            /\ symbol_links' = EmptyDict
            /\ log' = log \o ReadSymbolFileLog(symbolFile)
            /\ idx' = args.offset + 1
            /\ agg' = AggZero
            /\ merged' = EmptyDict
            /\ pc' = "aggregate_loop"
            /\ exc' = NoExc
    /\ UNCHANGED <<symbolFile, jsonFile, files, folder, args, total_size, dts,
                   http, dl0>>

\* a symbol that needs no scraping: the loop goes on
AggSkip ==
    /\ pc = "aggregate_loop"
    /\ idx <= Len(symbol_list)
    /\ ~MustScrape(links, Upper(symbol_list[idx]), args.force_update)
    /\ idx' = idx + 1
    /\ UNCHANGED <<pc, exc, symbolFile, jsonFile, files, folder, args, links,
                   symbol_list, symbol_links, agg, total_size, dts, log, http, loaded,
                   merged, dl0>>

\* lines 405-425 run to the end for one symbol
AggScrape ==
    /\ pc = "aggregate_loop"
    /\ idx <= Len(symbol_list)
    /\ LET symbol == Upper(symbol_list[idx])
       IN /\ MustScrape(links, symbol, args.force_update)
          /\ \E page \in Pages :
               LET scraped == ReportLinks(page)
                   st == MergeYears(Scraped(AggState, symbol, page), symbol,
                                    scraped, SortedYears(scraped))
               IN /\ symbol_links' = scraped
                  /\ links' = st.links
                  /\ agg' = st.agg
                  /\ log' = st.log
                  /\ merged' = st.merged
          /\ http' = Append(http, PageRequest(symbol))
    /\ idx' = idx + 1
    /\ UNCHANGED <<pc, exc, symbolFile, jsonFile, files, folder, args,
                   symbol_list, total_size, dts, loaded, dl0>>

\* requests.get raises (no connection, connection reset) or the page cannot
\* be scraped (an anchor without href): nothing of this symbol is merged
AggScrapeRaises ==
    /\ pc = "aggregate_loop"
    /\ idx <= Len(symbol_list)
    /\ LET symbol == Upper(symbol_list[idx])
       IN /\ MustScrape(links, symbol, args.force_update)
          /\ log' = Append(log, LogLine("info", "Scraping links for", <<symbol>>))
          /\ http' = Append(http, PageRequest(symbol))
    /\ \E t \in {"requests.ConnectionError", "ConnectionError", "TypeError"} :
         exc' = [type |-> t, site |-> "loop"]
    /\ pc' = "aggregate_finally"
    /\ UNCHANGED <<symbolFile, jsonFile, files, folder, args, links,
                   symbol_list, symbol_links, idx, agg, total_size, dts, loaded, merged,
                   dl0>>

\* Ctrl-C while the merge loop of one symbol runs: the first n years of the
\* page are merged, the next one as far as the interrupt let it, the rest
\* are not
AggInterruptedInMerge ==
    /\ pc = "aggregate_loop"
    /\ idx <= Len(symbol_list)
    /\ LET symbol == Upper(symbol_list[idx])
       IN /\ MustScrape(links, symbol, args.force_update)
          /\ \E page \in Pages :
               LET scraped == ReportLinks(page)
                   years == SortedYears(scraped)
               IN \E n \in 0..(Len(years) - 1), stage \in MergeStages :
                    LET st == MergeOneInterrupted(
                                 MergeYears(Scraped(AggState, symbol, page), symbol,
                                            scraped, SubSeq(years, 1, n)),
                                 symbol, years[n + 1], scraped[years[n + 1]], stage)
                    IN /\ symbol_links' = scraped
                       /\ links' = st.links
                       /\ agg' = st.agg
                       /\ log' = st.log
                       /\ merged' = st.merged
          /\ http' = Append(http, PageRequest(symbol))
    /\ exc' = [type |-> "KeyboardInterrupt", site |-> "loop"]
    /\ pc' = "aggregate_finally"
    /\ UNCHANGED <<symbolFile, jsonFile, files, folder, args, symbol_list, idx,
                   total_size, dts, loaded, dl0>>

\* Ctrl-C between two symbols
AggInterrupted ==
    /\ pc = "aggregate_loop"
    /\ exc' = [type |-> "KeyboardInterrupt", site |-> "loop"]
    /\ pc' = "aggregate_finally"
    /\ UNCHANGED <<symbolFile, jsonFile, files, folder, args, links,
                   symbol_list, symbol_links, idx, agg, total_size, dts, log, http, loaded,
                   merged, dl0>>

\* the loop is exhausted
AggLoopEnd ==
    /\ pc = "aggregate_loop"
    /\ idx > Len(symbol_list)
    /\ pc' = "aggregate_finally"
    /\ UNCHANGED <<exc, symbolFile, jsonFile, files, folder, args, links,
                   symbol_list, symbol_links, idx, agg, total_size, dts, log, http, loaded,
                   merged, dl0>>

----------------------------------------------------------------------------
(* write_json, called from the finally clause of aggregate_links *)

\* faulty variant of FinallyTarget: the index is written only when the loop
\* ended without an exception
FinallyTargetNoWrite == IF exc = NoExc THEN "write_json" ELSE "aggregate_totals"

\* lines 426-429: with or without an exception, control reaches write_json
FinallyTarget == "write_json"

AggFinally ==
    /\ pc = "aggregate_finally"
    /\ pc' = FinallyTarget
    /\ log' = Append(log, LogLine("debug", "Writing fresh JSON File with latest links", <<>>))
    /\ UNCHANGED <<exc, symbolFile, jsonFile, files, folder, args, links,
                   symbol_list, symbol_links, idx, agg, total_size, dts, http, loaded,
                   merged, dl0>>

\* open(JSON_FILE, "w"): the file is created or truncated to nothing
WriteJsonOpen ==
    /\ pc = "write_json"
    /\ jsonFile' = JsonTruncated
    /\ pc' = "write_json_dump"
    /\ UNCHANGED <<exc, symbolFile, files, folder, args, links, symbol_list, symbol_links,
                   idx, agg, total_size, dts, log, http, loaded, merged,
                   dl0>>

\* open raises (no permission, read-only disk): the file is untouched
WriteJsonOpenRaises ==
    /\ pc = "write_json"
    /\ exc' = [type |-> "OSError", site |-> "write_json"]
    /\ pc' = "aggregate_raised"
    /\ UNCHANGED <<symbolFile, jsonFile, files, folder, args, links,
                   symbol_list, symbol_links, idx, agg, total_size, dts, log, http, loaded,
                   merged, dl0>>

\* json.dump and the close of the with block
WriteJsonDump ==
    /\ pc = "write_json_dump"
    /\ jsonFile' = JsonOf(links)
    /\ pc' = "aggregate_totals"
    /\ UNCHANGED <<exc, symbolFile, files, folder, args, links, symbol_list, symbol_links,
                   idx, agg, total_size, dts, log, http, loaded, merged,
                   dl0>>

\* json.dump or the flush raises (disk full) or is interrupted: what was
\* flushed so far stays in the file
WriteJsonDumpRaises ==
    /\ pc = "write_json_dump"
    /\ \E t \in {"OSError", "KeyboardInterrupt"} :
         exc' = [type |-> t, site |-> "write_json"]
    /\ jsonFile' = JsonTruncated
    /\ pc' = "aggregate_raised"
    /\ UNCHANGED <<symbolFile, files, folder, args, links, symbol_list, symbol_links, idx,
                   agg, total_size, dts, log, http, loaded, merged, dl0>>

\* lines 430-435: the totals, then the exception goes on or the function ends
AggTotals ==
    /\ pc = "aggregate_totals"
    /\ log' = log
              \o << LogLine("info", "Total symbols scraped", <<agg.symbols_scraped>>),
                    LogLine("info", "Total links added",
                            <<agg.links_added, agg.links_added_for>>),
                    LogLine("info", "Total links modified",
                            <<agg.links_modified, agg.links_modified_for>>) >>
              \o (IF exc = NoExc THEN << LogLine("info", "Aggregation finished", <<>>) >>
                  ELSE <<>>)
    /\ pc' = IF exc = NoExc THEN "aggregate_returned" ELSE "aggregate_raised"
    /\ UNCHANGED <<exc, symbolFile, jsonFile, files, folder, args, links,
                   symbol_list, symbol_links, idx, agg, total_size, dts, http, loaded,
                   merged, dl0>>

NextAggregate ==
    \/ AggBegin
    \/ AggSkip
    \/ AggScrape
    \/ AggScrapeRaises
    \/ AggInterruptedInMerge
    \/ AggInterrupted
    \/ AggLoopEnd
    \/ AggFinally
    \/ WriteJsonOpen
    \/ WriteJsonOpenRaises
    \/ WriteJsonDump
    \/ WriteJsonDumpRaises
    \/ AggTotals

----------------------------------------------------------------------------
(* File names and the download folder *)

NoUrl == [origin |-> "", dir |-> "", file |-> <<>>]

\* os.path.basename(url), as its "_"-separated components
Basename(url) == url.file

\* "_".join(file_name_components[-4:])
LastFour(parts) ==
    LET n == Len(parts)
    IN SubSeq(parts, IF n > 4 THEN n - 3 ELSE 1, n)

\* a file of the download folder: its name components and its suffix
FileNamed(parts) == [parts |-> parts, suffix |-> ""]

\* download_reports' output_file (original basename) and renamed_file
\* (canonical name); download_to_save's output_file is the canonical one
OutputFile(url) == FileNamed(Basename(url))

RenamedFile(url) == FileNamed(LastFour(Basename(url)))

\* download_to_save's download_file
DownloadFile(url) == [parts |-> LastFour(Basename(url)), suffix |-> ".downloading"]

\* os.path.exists
Exists(fs, f) == f \in DOMAIN fs

\* content of a file that was in the folder before the run
OldContent == [source |-> NoUrl, chunks |-> 1, body |-> 1, mtime |-> "local"]

\* content of a download in progress: chunks written of a body of that many
Partial(url, n, body) == [source |-> url, chunks |-> n, body |-> body, mtime |-> "local"]

Remove(fs, f) == [x \in (DOMAIN fs) \ {f} |-> fs[x]]

\* os.rename / os.replace(src, dst) when it succeeds
Rename(fs, src, dst) ==
    IF src = dst THEN fs ELSE Remove(Put(fs, dst, fs[src]), src)

FolderNames == UNION { {OutputFile(u), RenamedFile(u)} : u \in URLs }

\* download folders found when the program starts
InitialFolders == UNION { [names -> {OldContent}] : names \in SUBSET FolderNames }

\* Content-Length the server reports for a report, and the size in MiB
ContentLength(url) == Len(url.file) * 1024 * 1024

MiB(bytes) == bytes \div (1024 * 1024)

----------------------------------------------------------------------------
(* download_reports *)

NoDl0 == [files |-> EmptyDict, folder |-> FALSE, log |-> 0, http |-> 0]

\* faulty variant of SymbolCase: only the original-named file counts as an
\* existing download
SymbolCaseOriginalOnly(d, fs, a, symbol) ==
    IF ~Truthy(d, symbol) THEN "no_links"
    ELSE IF ~Truthy(d[symbol], a.financial_year) THEN "no_report"
    ELSE LET url == d[symbol][a.financial_year]
         IN IF a.rename_existing
            THEN (IF Exists(fs, OutputFile(url)) THEN "rename" ELSE "rename_nothing")
            ELSE IF Exists(fs, OutputFile(url))
            THEN "exists"
            ELSE IF a.size_only THEN "size"
            ELSE "download"

\* which branch of lines 481-519 a symbol takes
SymbolCase(d, fs, a, symbol) ==
    IF ~Truthy(d, symbol) THEN "no_links"
    ELSE IF ~Truthy(d[symbol], a.financial_year) THEN "no_report"
    ELSE LET url == d[symbol][a.financial_year]
         IN IF a.rename_existing
            THEN (IF Exists(fs, OutputFile(url)) THEN "rename" ELSE "rename_nothing")
            ELSE IF Exists(fs, OutputFile(url)) \/ Exists(fs, RenamedFile(url))
            THEN "exists"
            ELSE IF a.size_only THEN "size"
            ELSE "download"

UrlOf(d, a, symbol) == d[symbol][a.financial_year]

\* faulty variant of DecisionLog: the "Downloading" and "renamed to" lines
\* are written only when the action is carried out
DecisionLogWhenActing(d, fs, a, symbol) ==
    LET c == SymbolCase(d, fs, a, symbol)
    IN IF c = "no_links"
       THEN << LogLine("warning", "No links available", <<symbol>>) >>
       ELSE IF c = "no_report"
       THEN << LogLine("debug", "No report available", <<symbol, a.financial_year>>) >>
       ELSE LET url == UrlOf(d, a, symbol)
            IN CASE c = "rename" ->
                      IF a.simulate THEN <<>>
                      ELSE << LogLine("info", "renamed to",
                                      <<Basename(url), LastFour(Basename(url))>>) >>
                 [] c = "rename_nothing" -> <<>>
                 [] c = "exists" ->
                      << LogLine("debug", "Already exists",
                                 <<symbol, IF Exists(fs, RenamedFile(url))
                                           THEN LastFour(Basename(url))
                                           ELSE Basename(url)>>) >>
                 [] c = "size" ->
                      << LogLine("info", "MiB", <<symbol, url, MiB(ContentLength(url))>>) >>
                 [] c = "download" ->
                      IF a.simulate THEN <<>>
                      ELSE << LogLine("info", "Downloading", <<symbol, url>>) >>

\* the line a symbol gets before anything is done for it (lines 482, 494,
\* 506, 512, 517, and line 352 of get_download_size)
DecisionLog(d, fs, a, symbol) ==
    LET c == SymbolCase(d, fs, a, symbol)
    IN IF c = "no_links"
       THEN << LogLine("warning", "No links available", <<symbol>>) >>
       ELSE IF c = "no_report"
       THEN << LogLine("debug", "No report available", <<symbol, a.financial_year>>) >>
       ELSE LET url == UrlOf(d, a, symbol)
            IN CASE c = "rename" ->
                      << LogLine("info", "renamed to",
                                 <<Basename(url), LastFour(Basename(url))>>) >>
                 [] c = "rename_nothing" -> <<>>
                 [] c = "exists" ->
                      << LogLine("debug", "Already exists",
                                 <<symbol, IF Exists(fs, RenamedFile(url))
                                           THEN LastFour(Basename(url))
                                           ELSE Basename(url)>>) >>
                 [] c = "size" ->
                      << LogLine("info", "MiB", <<symbol, url, MiB(ContentLength(url))>>) >>
                 [] c = "download" ->
                      << LogLine("info", "Downloading", <<symbol, url>>) >>

\* lines 520-523
EndLog(a, total) ==
    (IF a.size_only
     THEN << LogLine("info", "Total estimated download size", <<total>>) >>
     ELSE <<>>)
    \o << LogLine("info", "Downloading finished", <<>>) >>

\* the log of download_reports run with simulate set: no file changes, so
\* every symbol is decided against the same folder fs
RECURSIVE SimulatedLines(_, _, _, _, _, _)
SimulatedLines(d, fs, a, list, i, total) ==
    IF i > Len(list) THEN EndLog(a, total)
    ELSE LET symbol == Upper(list[i])
             size == IF SymbolCase(d, fs, a, symbol) = "size"
                     THEN MiB(ContentLength(UrlOf(d, a, symbol)))
                     ELSE 0
         IN DecisionLog(d, fs, a, symbol)
            \o SimulatedLines(d, fs, a, list, i + 1, total + size)

\* faulty variant of RenameExisting: renames under simulate as well
RenameExistingAlways(fs, a, url) == Rename(fs, OutputFile(url), RenamedFile(url))

\* lines 497-498
RenameExisting(fs, a, url) ==
    IF a.simulate THEN fs ELSE Rename(fs, OutputFile(url), RenamedFile(url))

\* lines 475-478
DlBegin ==
    /\ pc = "download_reports"
    /\ IF ReadJsonRaises(jsonFile)
       THEN /\ exc' = [type |-> "ValueError", site |-> "read_json"]
            /\ pc' = "download_raised"
            /\ UNCHANGED <<links, symbol_list, idx, total_size, log, loaded, dl0>>
       ELSE /\ links' = ReadJson(jsonFile)
            /\ loaded' = ReadJson(jsonFile)
            /\ symbol_list' = ReadSymbolFile(symbolFile)
            /\ log' = log \o ReadSymbolFileLog(symbolFile)
            /\ idx' = args.offset + 1
            /\ total_size' = 0
            /\ dl0' = [files |-> files, folder |-> folder, http |-> Len(http),
                       log |-> Len(log) + Len(ReadSymbolFileLog(symbolFile))]
            /\ pc' = "download_loop"
            /\ exc' = NoExc
    /\ UNCHANGED <<symbolFile, jsonFile, files, folder, args, symbol_links, agg,
                   dts, http, merged>>

\* lines 481-484, 503-507, 516-519 and the silent continue of line 502: the
\* symbol is passed over
DlSkip ==
    /\ pc = "download_loop"
    /\ idx <= Len(symbol_list)
    /\ SymbolCase(links, files, args, Upper(symbol_list[idx]))
         \in {"no_links", "no_report", "exists", "rename_nothing"}
    /\ log' = log \o DecisionLog(links, files, args, Upper(symbol_list[idx]))
    /\ idx' = idx + 1
    /\ UNCHANGED <<pc, exc, symbolFile, jsonFile, files, folder, args, links,
                   symbol_list, symbol_links, agg, total_size, dts, http,
                   loaded, merged, dl0>>

\* lines 492-502 when the original-named file exists and os.rename succeeds
\* (or is not attempted)
DlRename ==
    /\ pc = "download_loop"
    /\ idx <= Len(symbol_list)
    /\ LET symbol == Upper(symbol_list[idx])
       IN /\ SymbolCase(links, files, args, symbol) = "rename"
          /\ log' = log \o DecisionLog(links, files, args, symbol)
          /\ files' = RenameExisting(files, args, UrlOf(links, args, symbol))
    /\ idx' = idx + 1
    /\ UNCHANGED <<pc, exc, symbolFile, jsonFile, folder, args, links,
                   symbol_list, symbol_links, agg, total_size, dts, http,
                   loaded, merged, dl0>>

\* where download_reports goes when os.rename raised OSError (lines 499-502)
AfterRenameErrorRaise == "download_raised"

AfterRenameError == "download_loop"

\* lines 492-502 when os.rename raises OSError
DlRenameFails ==
    /\ pc = "download_loop"
    /\ idx <= Len(symbol_list)
    /\ ~args.simulate
    /\ LET symbol == Upper(symbol_list[idx])
       IN /\ SymbolCase(links, files, args, symbol) = "rename"
          /\ log' = log \o DecisionLog(links, files, args, symbol)
                        \o << LogLine("warning", "couldn't be renamed",
                                      <<OutputFile(UrlOf(links, args, symbol))>>) >>
    /\ pc' = AfterRenameError
    /\ IF AfterRenameError = "download_loop"
       THEN idx' = idx + 1 /\ exc' = exc
       ELSE idx' = idx /\ exc' = [type |-> "OSError", site |-> "rename"]
    /\ UNCHANGED <<symbolFile, jsonFile, files, folder, args, links,
                   symbol_list, symbol_links, agg, total_size, dts, http,
                   loaded, merged, dl0>>

\* lines 509-510 with get_download_size: a HEAD request
DlShowSize ==
    /\ pc = "download_loop"
    /\ idx <= Len(symbol_list)
    /\ LET symbol == Upper(symbol_list[idx])
       IN /\ SymbolCase(links, files, args, symbol) = "size"
          /\ http' = Append(http, <<"HEAD", UrlOf(links, args, symbol), symbol>>)
          /\ log' = log \o DecisionLog(links, files, args, symbol)
          /\ total_size' = total_size + MiB(ContentLength(UrlOf(links, args, symbol)))
    /\ idx' = idx + 1
    /\ UNCHANGED <<pc, exc, symbolFile, jsonFile, files, folder, args, links,
                   symbol_list, symbol_links, agg, dts, loaded, merged, dl0>>

\* requests.head raises
DlShowSizeRaises ==
    /\ pc = "download_loop"
    /\ idx <= Len(symbol_list)
    /\ LET symbol == Upper(symbol_list[idx])
       IN /\ SymbolCase(links, files, args, symbol) = "size"
          /\ http' = Append(http, <<"HEAD", UrlOf(links, args, symbol), symbol>>)
    /\ exc' = [type |-> "requests.ConnectionError", site |-> "head"]
    /\ pc' = "download_raised"
    /\ UNCHANGED <<symbolFile, jsonFile, files, folder, args, links,
                   symbol_list, symbol_links, idx, agg, total_size, dts, log,
                   loaded, merged, dl0>>

\* lines 512-515: the report is to be downloaded
DlDownload ==
    /\ pc = "download_loop"
    /\ idx <= Len(symbol_list)
    /\ LET symbol == Upper(symbol_list[idx])
       IN /\ SymbolCase(links, files, args, symbol) = "download"
          /\ log' = log \o DecisionLog(links, files, args, symbol)
          /\ IF args.simulate
             THEN /\ idx' = idx + 1
                  /\ UNCHANGED <<pc, dts>>
             ELSE /\ pc' = "download_to_save"
                  /\ dts' = [url |-> UrlOf(links, args, symbol), ok |-> FALSE, body |-> 0]
                  /\ idx' = idx
    /\ UNCHANGED <<exc, symbolFile, jsonFile, files, folder, args, links,
                   symbol_list, symbol_links, agg, total_size, http, loaded,
                   merged, dl0>>

\* Ctrl-C between two symbols
DlInterrupted ==
    /\ pc = "download_loop"
    /\ exc' = [type |-> "KeyboardInterrupt", site |-> "loop"]
    /\ pc' = "download_raised"
    /\ UNCHANGED <<symbolFile, jsonFile, files, folder, args, links,
                   symbol_list, symbol_links, idx, agg, total_size, dts, log,
                   http, loaded, merged, dl0>>

\* lines 520-523
DlEnd ==
    /\ pc = "download_loop"
    /\ idx > Len(symbol_list)
    /\ log' = log \o EndLog(args, total_size)
    /\ pc' = "download_returned"
    /\ UNCHANGED <<exc, symbolFile, jsonFile, files, folder, args, links,
                   symbol_list, symbol_links, idx, agg, total_size, dts, http,
                   loaded, merged, dl0>>

----------------------------------------------------------------------------
(* download_to_save *)

\* faulty variant of AfterGet: the status of the response is not looked at
AfterGetUnchecked(ok) == "dts_open"

\* lines 300-302: a response that is not OK ends download_to_save
AfterGet(ok) == IF ok THEN "dts_open" ELSE "download_loop"

\* lines 288-303: the folder is made, the GET is sent and answered
DtsGet ==
    /\ pc = "download_to_save"
    /\ folder' = TRUE
    /\ http' = Append(http, <<"GET", dts.url, Upper(symbol_list[idx])>>)
    /\ \E ok \in BOOLEAN, body \in 1..MaxChunks :
         /\ dts' = [dts EXCEPT !.ok = ok, !.body = body]
         /\ pc' = AfterGet(ok)
         /\ IF ok
            THEN UNCHANGED <<log, idx>>
            ELSE /\ log' = Append(log, LogLine("error", "Could not be downloaded",
                                               <<dts.url>>))
                 /\ idx' = IF AfterGet(ok) = "download_loop" THEN idx + 1 ELSE idx
    /\ UNCHANGED <<exc, symbolFile, jsonFile, files, args, links, symbol_list,
                   symbol_links, agg, total_size, loaded, merged, dl0>>

\* requests.get raises
DtsGetRaises ==
    /\ pc = "download_to_save"
    /\ folder' = TRUE
    /\ http' = Append(http, <<"GET", dts.url, Upper(symbol_list[idx])>>)
    /\ exc' = [type |-> "requests.ConnectionError", site |-> "get"]
    /\ pc' = "download_raised"
    /\ UNCHANGED <<symbolFile, jsonFile, files, args, links, symbol_list,
                   symbol_links, idx, agg, total_size, dts, log, loaded,
                   merged, dl0>>

\* line 307: open(download_file, "wb") creates the file empty
DtsOpen ==
    /\ pc = "dts_open"
    /\ files' = Put(files, DownloadFile(dts.url), Partial(dts.url, 0, dts.body))
    /\ pc' = "dts_stream"
    /\ UNCHANGED <<exc, symbolFile, jsonFile, folder, args, links, symbol_list,
                   symbol_links, idx, agg, total_size, dts, log, http, loaded,
                   merged, dl0>>

\* lines 309-322: one chunk is written
DtsChunk ==
    /\ pc = "dts_stream"
    /\ files[DownloadFile(dts.url)].chunks < dts.body
    /\ files' = [files EXCEPT ![DownloadFile(dts.url)].chunks = @ + 1]
    /\ UNCHANGED <<pc, exc, symbolFile, jsonFile, folder, args, links,
                   symbol_list, symbol_links, idx, agg, total_size, dts, log,
                   http, loaded, merged, dl0>>

\* faulty variant of AfterStreamError: the unfinished file is removed
AfterStreamErrorCleanup(fs, download_file) == Remove(fs, download_file)

\* lines 323-325: the except clause leaves the file as it is
AfterStreamError(fs, download_file) == fs

\* an exception while the body is streamed (connection lost, disk full,
\* Ctrl-C): lines 323-325 re-raise it
DtsStreamRaises ==
    /\ pc = "dts_stream"
    /\ files[DownloadFile(dts.url)].chunks < dts.body
    /\ \E t \in {"requests.ConnectionError", "OSError", "KeyboardInterrupt"} :
         exc' = [type |-> t, site |-> "stream"]
    /\ files' = AfterStreamError(files, DownloadFile(dts.url))
    /\ pc' = "download_raised"
    /\ UNCHANGED <<symbolFile, jsonFile, folder, args, links, symbol_list,
                   symbol_links, idx, agg, total_size, dts, log, http, loaded,
                   merged, dl0>>

\* the else clause of line 326 is reached when the for loop of line 309 has
\* written the whole body
ReplaceReady(fs, url, body) == fs[DownloadFile(url)].chunks = body

\* lines 326-332: os.replace, the server's timestamp, the debug line
DtsReplace ==
    /\ pc = "dts_stream"
    /\ ReplaceReady(files, dts.url, dts.body)
    /\ \E last_modified \in {"none", "valid"} :
         files' = Put(Remove(files, DownloadFile(dts.url)), RenamedFile(dts.url),
                      [files[DownloadFile(dts.url)] EXCEPT
                         !.mtime = IF last_modified = "valid" THEN "server"
                                   ELSE "local"])
    /\ log' = Append(log, LogLine("debug", "Downloaded", <<dts.url>>))
    /\ idx' = idx + 1
    /\ pc' = "download_loop"
    /\ UNCHANGED <<exc, symbolFile, jsonFile, folder, args, links, symbol_list,
                   symbol_links, agg, total_size, dts, http, loaded, merged,
                   dl0>>

\* lines 328-331 when strptime rejects the Last-Modified header: the file is
\* in place and apply_server_timestamp raises ValueError
DtsTimestampRaises ==
    /\ pc = "dts_stream"
    /\ ReplaceReady(files, dts.url, dts.body)
    /\ files' = Put(Remove(files, DownloadFile(dts.url)), RenamedFile(dts.url),
                    files[DownloadFile(dts.url)])
    /\ exc' = [type |-> "ValueError", site |-> "apply_server_timestamp"]
    /\ pc' = "download_raised"
    /\ UNCHANGED <<symbolFile, jsonFile, folder, args, links, symbol_list,
                   symbol_links, idx, agg, total_size, dts, log, http, loaded,
                   merged, dl0>>

NextDownload ==
    \/ DlBegin
    \/ DlSkip
    \/ DlRename
    \/ DlRenameFails
    \/ DlShowSize
    \/ DlShowSizeRaises
    \/ DlDownload
    \/ DlInterrupted
    \/ DlEnd
    \/ DtsGet
    \/ DtsGetRaises
    \/ DtsOpen
    \/ DtsChunk
    \/ DtsStreamRaises
    \/ DtsReplace
    \/ DtsTimestampRaises

----------------------------------------------------------------------------
(* main *)

\* lines 612-620: the arguments are parsed; aggregate_links is called when
\* --aggregate was given
MainBegin ==
    /\ pc = "main"
    /\ pc' = IF args.aggregate THEN "aggregate_links" ELSE "main_download"
    /\ UNCHANGED <<exc, symbolFile, jsonFile, files, folder, args, links,
                   symbol_list, symbol_links, idx, agg, total_size, dts, log,
                   http, loaded, merged, dl0>>

\* aggregate_links has returned to line 621
MainAggregated ==
    /\ pc = "aggregate_returned"
    /\ pc' = "main_download"
    /\ UNCHANGED <<exc, symbolFile, jsonFile, files, folder, args, links,
                   symbol_list, symbol_links, idx, agg, total_size, dts, log,
                   http, loaded, merged, dl0>>

\* lines 621-628: download_reports is called when --download was given
MainDownload ==
    /\ pc = "main_download"
    /\ pc' = IF args.download THEN "download_reports" ELSE "main_done"
    /\ UNCHANGED <<exc, symbolFile, jsonFile, files, folder, args, links,
                   symbol_list, symbol_links, idx, agg, total_size, dts, log,
                   http, loaded, merged, dl0>>

\* download_reports has returned: main ends
MainDownloaded ==
    /\ pc = "download_returned"
    /\ pc' = "main_done"
    /\ UNCHANGED <<exc, symbolFile, jsonFile, files, folder, args, links,
                   symbol_list, symbol_links, idx, agg, total_size, dts, log,
                   http, loaded, merged, dl0>>

\* the message of the except clause that catches the exception type
ExceptLog(type) ==
    IF type = "requests.ConnectionError"
    THEN << LogLine("error", "Please check your network connection", <<>>) >>
    ELSE IF type = "ConnectionError"
    THEN << LogLine("error", "Try to resume program after some time", <<>>) >>
    ELSE << LogLine("info", "Prematurely exiting the program", <<>>) >>

Caught == {"requests.ConnectionError", "ConnectionError", "KeyboardInterrupt"}

\* faulty variant of AfterExcept: each call has a try of its own, so the
\* download is still made after a caught failure of the aggregation
AfterExceptResume == IF pc = "aggregate_raised" THEN "main_download" ELSE "main_done"

\* both calls are in the one try of line 612: after an except clause main
\* is over
AfterExcept == "main_done"

\* lines 629-636: the three except clauses; any other exception leaves main
MainExcept ==
    /\ pc \in {"aggregate_raised", "download_raised"}
    /\ IF exc.type \in Caught
       THEN /\ log' = log \o ExceptLog(exc.type)
            /\ exc' = NoExc
            /\ pc' = AfterExcept
       ELSE /\ pc' = "main_raised"
            /\ UNCHANGED <<log, exc>>
    /\ UNCHANGED <<symbolFile, jsonFile, files, folder, args, links,
                   symbol_list, symbol_links, idx, agg, total_size, dts, http,
                   loaded, merged, dl0>>

NextMain ==
    \/ MainBegin
    \/ MainAggregated
    \/ MainDownload
    \/ MainDownloaded
    \/ MainExcept

----------------------------------------------------------------------------
(* Specifications *)

DefaultArgs ==
    [aggregate |-> FALSE, force_update |-> FALSE, download |-> FALSE,
     financial_year |-> LatestFinancialYear, simulate |-> FALSE,
     size_only |-> FALSE, rename_existing |-> FALSE, offset |-> 0]

NoDts == [url |-> NoUrl, ok |-> FALSE, body |-> 0]

InitCommon ==
    /\ exc = NoExc
    /\ symbolFile \in SymbolFiles
    /\ jsonFile \in {JsonAbsent, JsonTruncated} \cup { JsonOf(d) : d \in InitialIndexes }
    /\ links = EmptyDict
    /\ symbol_list = <<>>
    /\ symbol_links = EmptyDict
    /\ idx = 1
    /\ agg = AggZero
    /\ total_size = 0
    /\ dts = NoDts
    /\ log = <<>>
    /\ http = <<>>
    /\ loaded = EmptyDict
    /\ merged = EmptyDict

\* index files and download folders of the runs of the whole program
MainIndexes ==
    { d \in InitialIndexes :
        DOMAIN d = {"TCS"} /\ DOMAIN d["TCS"] = {LatestFinancialYear} }

MainFolders ==
    { fs \in InitialFolders :
        \A n \in DOMAIN fs : \E u \in URLs : n = OutputFile(u) /\ n # RenamedFile(u) }

\* symbol files that name no symbol twice
MainSymbolFiles ==
    { f \in SymbolFiles :
        f.exists /\ \A i, j \in 1..Len(f.lines) : f.lines[i] = f.lines[j] => i = j }

\* the ways of downloading: plain, --simulate, --size-only, --rename-existing
Modes ==
    { m \in [simulate : BOOLEAN, size_only : BOOLEAN, rename_existing : BOOLEAN] :
        ~(m.size_only /\ (m.simulate \/ m.rename_existing)) }

\* one run of the program: python3 annual_report.py [-a [--force-update]]
\* [-d [-fy ..] [--simulate] [--size-only] [--rename-existing]] [-o ..]
Init ==
    /\ InitCommon
    /\ jsonFile \in {JsonAbsent} \cup { JsonOf(d) : d \in MainIndexes }
    /\ symbolFile \in MainSymbolFiles
    /\ pc = "main"
    /\ files \in MainFolders
    /\ folder = TRUE
    /\ dl0 = NoDl0
    /\ \E a \in BOOLEAN, f \in BOOLEAN, d \in BOOLEAN, fy \in Years,
          m \in Modes, o \in Offsets :
         /\ a \/ d
         /\ f => a
         /\ ~d => (fy = LatestFinancialYear /\ m = [simulate |-> FALSE,
                       size_only |-> FALSE, rename_existing |-> FALSE])
         /\ args = [aggregate |-> a, force_update |-> f, download |-> d,
                    financial_year |-> fy, simulate |-> m.simulate,
                    size_only |-> m.size_only,
                    rename_existing |-> m.rename_existing, offset |-> o]

Next == NextMain \/ NextAggregate \/ NextDownload

Spec == Init /\ [][Next]_vars

\* one call aggregate_links(symbol_file, force_update, offset)
InitAggregate ==
    /\ InitCommon
    /\ pc = "aggregate_links"
    /\ files = EmptyDict
    /\ dl0 = NoDl0
    /\ folder = FALSE
    /\ \E f \in BOOLEAN, o \in Offsets :
         args = [DefaultArgs EXCEPT !.aggregate = TRUE, !.force_update = f,
                                    !.offset = o]

SpecAggregate == InitAggregate /\ [][NextAggregate]_vars

\* one call download_reports(symbol_file, financial_year, base_download_folder,
\* simulate, show_download_size_only, rename_existing, offset)
InitDownload ==
    /\ InitCommon
    /\ pc = "download_reports"
    /\ files \in InitialFolders
    /\ folder \in (IF files = EmptyDict THEN BOOLEAN ELSE {TRUE})
    /\ dl0 = NoDl0
    /\ \E fy \in Years, sim \in BOOLEAN, size \in BOOLEAN, ren \in BOOLEAN,
          o \in Offsets :
         args = [DefaultArgs EXCEPT !.download = TRUE, !.financial_year = fy,
                                    !.simulate = sim, !.size_only = size,
                                    !.rename_existing = ren, !.offset = o]

SpecDownload == InitDownload /\ [][NextDownload]_vars

----------------------------------------------------------------------------
(* Properties of aggregate_links *)

AggregatePcs ==
    {"aggregate_loop", "aggregate_finally", "write_json", "write_json_dump",
     "aggregate_totals", "aggregate_returned", "aggregate_raised"}

\* d holds link u for (s, y)
HasLink(d, s, y, u) ==
    IF s \in DOMAIN d
    THEN (IF y \in DOMAIN d[s] THEN d[s][y] = u ELSE FALSE)
    ELSE FALSE

HasPair(d, s, y) == IF s \in DOMAIN d THEN y \in DOMAIN d[s] ELSE FALSE

\* the log line at position i is the given record
LogHas(line) == \E i \in 1..Len(log) : log[i] = line

\* C1: when an exception raised inside the loop of aggregate_links leaves the
\* function, the index file on disk is the complete in-memory index and holds
\* every link merged before the failure; an exception raised in the loop
\* never ends in a normal return.
C1_IndexSavedBeforeReraise ==
    /\ (pc = "aggregate_raised" /\ exc.site = "loop") =>
          /\ jsonFile = JsonOf(links)
          /\ \A k \in DOMAIN merged : HasLink(jsonFile.index, k[1], k[2], merged[k])
    /\ exc.site = "loop" =>
          pc \in {"aggregate_finally", "write_json", "write_json_dump",
                  "aggregate_totals", "aggregate_raised"}

\* C1 witness: the exception of the second or a later symbol has left the
\* function after links of earlier symbols were merged.
C1_Witness ==
    /\ pc = "aggregate_raised"
    /\ exc.site = "loop"
    /\ idx > args.offset + 1
    /\ merged # EmptyDict

\* every symbol of the symbol file has a link for the latest financial year
\* in the index that was loaded
AllSymbolsCurrent ==
    \A i \in 1..Len(symbol_list) :
        IF Truthy(loaded, Upper(symbol_list[i]))
        THEN Truthy(loaded[Upper(symbol_list[i])], LatestFinancialYear)
        ELSE FALSE

\* C2: a run without force_update over an index that has the latest financial
\* year for every symbol of the file issues no page request, counts and
\* reports zero scraped symbols, added and modified links, and leaves on disk
\* the index it loaded.
C2_RerunIsIdempotent ==
    (pc \in AggregatePcs /\ exc.site \in {"none", "loop"}
       /\ ~args.force_update /\ AllSymbolsCurrent) =>
        /\ http = <<>>
        /\ agg = AggZero
        /\ links = loaded
        /\ pc \in {"aggregate_returned", "aggregate_raised"} =>
              /\ jsonFile = JsonOf(loaded)
              /\ LogHas(LogLine("info", "Total symbols scraped", <<0>>))
              /\ LogHas(LogLine("info", "Total links added", <<0, <<>>>>))
              /\ LogHas(LogLine("info", "Total links modified", <<0, <<>>>>))

\* C2 witness: such a run over two symbols has returned.
C2_Witness ==
    /\ pc = "aggregate_returned"
    /\ ~args.force_update
    /\ AllSymbolsCurrent
    /\ args.offset = 0
    /\ Len(symbol_list) >= 2

\* the years of the scraped dict that are new to, and that differ in, index d
AddedYears(d, s, scraped) ==
    { y \in DOMAIN scraped : ~HasPair(d, s, y) }

ModifiedYears(d, s, scraped) ==
    { y \in DOMAIN scraped : HasPair(d, s, y) /\ ~HasLink(d, s, y, scraped[y]) }

NewLogLines == SubSeq(log', Len(log) + 1, Len(log'))

CountLines(ls, kind) ==
    Cardinality({ i \in 1..Len(ls) : LineMsg(ls[i]) = kind })

\* C3: a step that scrapes one symbol to the end inserts every scraped year
\* the index lacked and logs and counts it as added, overwrites every year
\* whose link differs and logs and counts it as modified (never as added),
\* and leaves every other entry, and both counters otherwise, unchanged.
C3_MergeClassifies ==
    [][ (pc = "aggregate_loop" /\ pc' = "aggregate_loop"
           /\ agg'.symbols_scraped = agg.symbols_scraped + 1) =>
        LET s == Upper(symbol_list[idx])
            added == AddedYears(links, s, symbol_links')
            modified == ModifiedYears(links, s, symbol_links')
            lines == NewLogLines
        IN /\ \A y \in DOMAIN symbol_links' : HasLink(links', s, y, symbol_links'[y])
           /\ \A y \in added :
                \E i \in 1..Len(lines) :
                    lines[i] = LogLine("info", "Added", <<s, y, symbol_links'[y]>>)
           /\ \A y \in modified :
                /\ \E i \in 1..Len(lines) :
                      lines[i] = LogLine("warning", "Modified", <<s, y, symbol_links'[y]>>)
                /\ \A i \in 1..Len(lines) :
                      lines[i] # LogLine("info", "Added", <<s, y, symbol_links'[y]>>)
           /\ CountLines(lines, "Added") = Cardinality(added)
           /\ CountLines(lines, "Modified") = Cardinality(modified)
           /\ agg'.links_added = agg.links_added + Cardinality(added)
           /\ agg'.links_modified = agg.links_modified + Cardinality(modified)
           /\ \A t \in DOMAIN links : \A y \in DOMAIN links[t] :
                (t # s \/ y \notin DOMAIN symbol_links') =>
                    HasLink(links', t, y, links[t][y])
    ]_vars

\* C3 witness: one run has both inserted a new link and overwritten an old one.
C3_Witness ==
    /\ pc = "aggregate_returned"
    /\ agg.links_added > 0
    /\ agg.links_modified > 0

\* C9 as claimed: from the moment write_json starts, the index file holds the
\* complete index that was loaded (or is still absent) or the complete new
\* index, never an empty or partial document.
C9_IndexFileNeverPartial ==
    (pc \in {"write_json", "write_json_dump", "aggregate_totals",
             "aggregate_returned", "aggregate_raised"}
       /\ exc.site # "read_json") =>
        jsonFile \in {JsonAbsent, JsonOf(loaded), JsonOf(links)}

\* the symbol the loop of aggregate_links is at needs its page: the run is
\* forced, or the index as it is now has no link for the symbol under the
\* latest financial year
NeedsPage ==
    args.force_update \/ ~HasPair(links, Upper(symbol_list[idx]), LatestFinancialYear)

\* C11: the loop of aggregate_links starts after the first offset symbols;
\* a page is requested only for the symbol the loop is at, and only when the
\* run is forced or the index has at that moment no link for the symbol
\* under the latest financial year; a step that passes to the next symbol
\* has requested and scraped the page in exactly that case, and has otherwise
\* requested nothing and left the index and the counters as they were.
C11_ScrapedIffForcedOrMissing ==
    [][ (pc = "aggregate_loop") =>
          /\ idx > args.offset
          /\ (http' # http) =>
                /\ idx <= Len(symbol_list)
                /\ NeedsPage
                /\ http' = Append(http, PageRequest(Upper(symbol_list[idx])))
          /\ (idx' = idx + 1) =>
                IF NeedsPage
                THEN /\ http' = Append(http, PageRequest(Upper(symbol_list[idx])))
                     /\ agg'.symbols_scraped = agg.symbols_scraped + 1
                ELSE /\ http' = http
                     /\ links' = links
                     /\ agg' = agg
                     /\ log' = log
    ]_vars

\* C11 witness: an unforced run has returned after scraping one symbol and
\* passing over another that already had the latest link.
C11_Witness ==
    /\ pc = "aggregate_returned"
    /\ ~args.force_update
    /\ Len(symbol_list) - args.offset >= 2
    /\ agg.symbols_scraped = 1
    /\ Len(http) = 1

\* every (symbol, year) pair of index d is a pair of index e
KeepsPairs(d, e) ==
    \A s \in DOMAIN d : \A y \in DOMAIN d[s] : HasPair(e, s, y)

\* the index a later run would find on disk: nothing when the file is absent
\* or holds no complete document
SavedIndex == IF jsonFile.state = "complete" THEN jsonFile.index ELSE EmptyDict

\* C12 as claimed: once a run of aggregate_links that loaded an index has
\* ended, by returning or by raising, the index file holds every (symbol,
\* year) pair of the loaded index, and its number of pairs is the number
\* loaded plus links_added.
C12_NeverLosesLinks ==
    (pc \in {"aggregate_returned", "aggregate_raised"} /\ exc.site # "read_json") =>
        /\ KeepsPairs(loaded, SavedIndex)
        /\ PairCount(SavedIndex) = PairCount(loaded) + agg.links_added

----------------------------------------------------------------------------
(* Properties of download_reports and download_to_save *)

DownloadPcs ==
    {"download_loop", "download_to_save", "dts_open", "dts_stream",
     "download_returned", "download_raised"}

InLoop == pc = "download_loop" /\ idx <= Len(symbol_list)

CurSymbol == Upper(symbol_list[idx])

\* the index has a link for the symbol under the requested financial year
HasUrl(symbol) ==
    IF Truthy(links, symbol) THEN Truthy(links[symbol], args.financial_year)
    ELSE FALSE

CurUrl == UrlOf(links, args, CurSymbol)

\* the symbol at hand has a link for the requested year and no file under
\* the original or the canonical name
MayRequest ==
    IF idx <= Len(symbol_list) /\ HasUrl(CurSymbol)
    THEN ~Exists(files, OutputFile(CurUrl)) /\ ~Exists(files, RenamedFile(CurUrl))
    ELSE FALSE

\* the lines logged since download_reports began
DownloadLog == SubSeq(log, dl0.log + 1, Len(log))

LogHasMsg(msgs) == \E i \in 1..Len(log) : LineMsg(log[i]) \in msgs

\* C4 as claimed: an HTTP request is issued only for a symbol that has a link
\* for the requested year and no file under either name; every other symbol
\* is logged and passed over without an exception, the loop moving on.
C4_Claimed ==
    [][ (pc \in {"download_loop", "download_to_save"}) =>
          /\ http' # http => MayRequest
          /\ (InLoop /\ ~MayRequest /\ exc'.type # "KeyboardInterrupt") =>
                /\ http' = http
                /\ exc' = NoExc
                /\ pc' = "download_loop"
                /\ idx' = idx + 1
                /\ (Len(log') > Len(log))
    ]_vars

\* the one case in which a passed-over symbol gets no log line: in
\* rename_existing mode, a link whose original-named file is not there
SilentSkip ==
    IF args.rename_existing /\ HasUrl(CurSymbol)
    THEN ~Exists(files, OutputFile(CurUrl))
    ELSE FALSE

\* C4 (amended): an HTTP request is issued only for a symbol that has a link
\* for the requested year and no file under either name; every other symbol
\* is passed over without an exception, the loop moving on, and is logged
\* unless rename_existing is set and no original-named file exists.
C4_NoRequestUnlessMissing ==
    [][ (pc \in {"download_loop", "download_to_save"}) =>
          /\ http' # http => MayRequest
          /\ (InLoop /\ ~MayRequest /\ exc'.type # "KeyboardInterrupt") =>
                /\ http' = http
                /\ exc' = NoExc
                /\ pc' = "download_loop"
                /\ idx' = idx + 1
                /\ IF SilentSkip THEN log' = log ELSE (Len(log') > Len(log))
    ]_vars

\* C4 witness: a run that passed over one symbol and issued a request for
\* another has returned.
C4_Witness ==
    /\ pc = "download_returned"
    /\ Len(http) > dl0.http
    /\ LogHasMsg({"No links available", "No report available", "Already exists"})

\* C5: no step of a run with simulate set changes the download folder, its
\* files, the index file or the symbol file, whatever the other flags are.
C5_SimulateTouchesNothing ==
    [][ (args.simulate /\ pc \in DownloadPcs \cup {"download_reports"}) =>
          /\ files' = files
          /\ folder' = folder
          /\ jsonFile' = jsonFile
          /\ symbolFile' = symbolFile
    ]_vars

\* C5 witness: a simulated rename_existing run has announced a rename and
\* returned.
C5_Witness ==
    /\ pc = "download_returned"
    /\ args.simulate
    /\ args.rename_existing
    /\ \E i \in (dl0.log + 1)..Len(log) : LineMsg(log[i]) = "renamed to"

\* what a simulated run from the same index, symbol file, flags and folder
\* logs
SimulatedLog ==
    SimulatedLines(links, dl0.files, [args EXCEPT !.simulate = TRUE],
                   symbol_list, args.offset + 1, 0)

\* C6 as claimed: a non-simulated run that returns has logged exactly the
\* lines of the simulated run.
C6_Claimed ==
    (pc = "download_returned" /\ ~args.simulate) => DownloadLog = SimulatedLog

\* lines that report how a download or a rename went
OutcomeMsgs == {"Could not be downloaded", "Downloaded", "couldn't be renamed"}

WithoutOutcomes(ls) == SelectSeq(ls, LAMBDA l : LineMsg(l) \notin OutcomeMsgs)

NamesOf(url) == {OutputFile(url), RenamedFile(url)}

\* no two symbols of the loop that have a link for the requested year share
\* a file name, original or canonical
NoSharedNames ==
    \A i, j \in (args.offset + 1)..Len(symbol_list) :
        (i < j /\ HasUrl(Upper(symbol_list[i])) /\ HasUrl(Upper(symbol_list[j]))) =>
            NamesOf(UrlOf(links, args, Upper(symbol_list[i])))
              \cap NamesOf(UrlOf(links, args, Upper(symbol_list[j]))) = {}

\* C6 (amended): a simulated run that returns has logged SimulatedLog, and a
\* non-simulated run that returns has logged the same lines plus the lines
\* reporting how each download or rename went, provided no two symbols with
\* a link for the requested year share a file name.
C6_SameLogButOutcomes ==
    pc = "download_returned" =>
        /\ args.simulate => DownloadLog = SimulatedLog
        /\ (~args.simulate /\ NoSharedNames) =>
              WithoutOutcomes(DownloadLog) = SimulatedLog

\* C6 witness: a non-simulated run has downloaded two reports and returned.
C6_Witness ==
    /\ pc = "download_returned"
    /\ ~args.simulate
    /\ NoSharedNames
    /\ \E i, j \in (dl0.log + 1)..Len(log) :
         /\ i < j
         /\ LineMsg(log[i]) = "Downloaded"
         /\ LineMsg(log[j]) = "Downloaded"

\* C7: when the GET is answered with a status that is not OK,
\* download_to_save logs the error and returns with no file created or
\* changed, and download_reports is back in its loop at the next symbol.
C7_NotOkSkipsOneFile ==
    [][ (pc = "download_to_save" /\ exc' = NoExc /\ ~dts'.ok) =>
          /\ pc' = "download_loop"
          /\ idx' = idx + 1
          /\ files' = files
          /\ log' = Append(log, LogLine("error", "Could not be downloaded", <<dts.url>>))
    ]_vars

\* C7 witness: after a failed download a later symbol was handled and the run
\* returned.
C7_Witness ==
    /\ pc = "download_returned"
    /\ \E i, j \in (dl0.log + 1)..Len(log) :
         /\ i < j
         /\ LineMsg(log[i]) = "Could not be downloaded"
         /\ LineMsg(log[j]) \in {"Downloading", "Already exists"}

\* the files of the folder that are not downloads in progress
Finished(fs) == { f \in DOMAIN fs : f.suffix = "" }

\* C8: outside rename_existing mode a finished file appears or changes only
\* when a completely streamed .downloading file is moved onto the canonical
\* name; an exception during streaming leaves the partial .downloading file
\* and every finished file as they are and ends download_reports with that
\* exception, after which no symbol is handled.
C8_ReplaceOnlyWhenComplete ==
    [][ /\ (pc \in DownloadPcs /\ ~args.rename_existing) =>
            \A f \in Finished(files') :
                (f \notin DOMAIN files \/ files'[f] # files[f]) =>
                    /\ pc = "dts_stream"
                    /\ f = RenamedFile(dts.url)
                    /\ Exists(files, DownloadFile(dts.url))
                    /\ files[DownloadFile(dts.url)].chunks = dts.body
                    /\ files'[f].source = dts.url
                    /\ files'[f].chunks = files'[f].body
                    /\ ~Exists(files', DownloadFile(dts.url))
        /\ (exc'.site = "stream" /\ exc.site # "stream") =>
            /\ Exists(files', DownloadFile(dts.url))
            /\ files'[DownloadFile(dts.url)] = files[DownloadFile(dts.url)]
            /\ files'[DownloadFile(dts.url)].chunks < dts.body
            /\ Finished(files') = Finished(files)
            /\ \A f \in Finished(files) : files'[f] = files[f]
            /\ pc' = "download_raised"
        /\ pc = "download_raised" =>
            /\ idx' = idx
            /\ files' = files
            /\ http' = http
            /\ pc' \notin DownloadPcs \ {"download_raised"}
    ]_vars

\* C8 witness: the stream of a report broke after its first chunk while
\* another symbol was still to come.
C8_Witness ==
    /\ pc = "download_raised"
    /\ exc.site = "stream"
    /\ Exists(files, DownloadFile(dts.url))
    /\ files[DownloadFile(dts.url)].chunks >= 1
    /\ ~Exists(files, RenamedFile(dts.url))
    /\ idx < Len(symbol_list)

\* C10: in rename_existing mode no step issues an HTTP request or enters
\* download_to_save; a symbol with a link has its original-named file renamed
\* to the canonical name when that file exists and simulate is off, and no
\* file touched otherwise; a failed rename is logged as a warning and the
\* loop moves on to the next symbol.
C10_RenameExistingOnly ==
    [][ (args.rename_existing /\ pc \in DownloadPcs) =>
          /\ http' = http
          /\ pc' \notin {"download_to_save", "dts_open", "dts_stream"}
          /\ (InLoop /\ exc'.type # "KeyboardInterrupt") =>
                /\ exc' = NoExc
                /\ pc' = "download_loop"
                /\ idx' = idx + 1
                /\ IF HasUrl(CurSymbol) /\ ~args.simulate
                      /\ Exists(files, OutputFile(CurUrl))
                   THEN \/ files' = Rename(files, OutputFile(CurUrl), RenamedFile(CurUrl))
                        \/ /\ files' = files
                           /\ log'[Len(log')] =
                                LogLine("warning", "couldn't be renamed",
                                        <<OutputFile(CurUrl)>>)
                   ELSE files' = files
    ]_vars

\* C10 witness: a rename failed, a later file was renamed, and the run
\* returned.
C10_Witness ==
    /\ pc = "download_returned"
    /\ args.rename_existing
    /\ files # dl0.files
    /\ \E i, j \in (dl0.log + 1)..Len(log) :
         /\ i < j
         /\ LineMsg(log[i]) = "couldn't be renamed"
         /\ LineMsg(log[j]) = "renamed to"

----------------------------------------------------------------------------
(* Properties of main *)

AggregationFinished == LogHas(LogLine("info", "Aggregation finished", <<>>))

\* C13: in a run with both --aggregate and --download, download_reports is
\* entered only from main after aggregate_links has returned, with the index
\* file holding the complete index aggregation ended with; its first step
\* loads exactly that index, the links merged in this run included; once
\* aggregate_links has raised, main ends in an except clause or with the
\* exception, and download_reports is never entered.
C13_DownloadAfterAggregation ==
    [][ args.aggregate =>
          /\ (pc' = "download_reports") =>
                /\ pc = "main_download"
                /\ args.download
                /\ exc = NoExc
                /\ AggregationFinished
                /\ jsonFile = JsonOf(links)
          /\ (pc = "download_reports") =>
                /\ pc' = "download_loop"
                /\ links' = links
                /\ \A k \in DOMAIN merged : HasLink(links', k[1], k[2], merged[k])
          /\ (pc = "aggregate_raised") => pc' \in {"main_done", "main_raised"}
          /\ (pc \in {"main_done", "main_raised"}) => pc' = pc
          /\ ~AggregationFinished =>
                /\ pc \notin DownloadPcs \cup {"download_reports", "main_download"}
                /\ dl0 = NoDl0
    ]_vars

\* C13 witness: a run with both flags has ended after downloading the report
\* of a link that aggregation added in the same run.
C13_Witness ==
    /\ pc = "main_done"
    /\ args.aggregate
    /\ args.download
    /\ agg.links_added > 0
    /\ \E k \in DOMAIN merged :
         /\ k[2] = args.financial_year
         /\ LogHas(LogLine("info", "Added", <<k[1], k[2], merged[k]>>))
         /\ Exists(files, RenamedFile(merged[k]))
         /\ ~Exists(dl0.files, RenamedFile(merged[k]))
         /\ files[RenamedFile(merged[k])].source = merged[k]

====
